---- MODULE Spec2Model ----
(***************************************************************************)
(* Model of custom_components/ecole_directe/ecole_directe_helper.py:       *)
(* the transport (get_response), the double-authentication helpers         *)
(* (get_qcm_connexion, post_qcm_connexion) and the authentication          *)
(* handshake (get_ecoledirecte_session) with its challenge cache qcm.json. *)
(*                                                                         *)
(* Texts are sequences of code points, byte strings sequences of 0..255,   *)
(* base64 strings sequences of sextets 0..63 with 64 standing for '='.     *)
(* The provider is an adversary: every reply is drawn from a set.          *)
(***************************************************************************)
EXTENDS Integers, Sequences, FiniteSets, TLC

VARIABLES
    data,        \* credentials handed to get_ecoledirecte_session
    pc,          \* position in get_ecoledirecte_session
    login,       \* local `login`: the body of the last login response
    file,        \* qcm.json on disk
    qcm_json,    \* local `qcm_json`: the cache in memory
    try_login,   \* local `try_login`
    qcm,         \* local `qcm`: data of the last challenge fetch
    question,    \* local `question`: decoded question text
    cn, cv,      \* locals `cn`, `cv`
    result,      \* outcome of the call: "running", "Session", "None", "QCMError"
    session,     \* the EDSession returned
    err,         \* kind of the exception that ended the call
    events,      \* events fired on hass.bus, in order
    step,        \* history: label of the last statement block executed
    nLogin, nFetch, nPost,   \* history: Transport calls per endpoint (saturating)
    fileReads, fileWrites,   \* history: open() calls on qcm.json (read / write mode)
    firstLogin,  \* history: body returned by the first login
    posted,      \* history: last (token, choix) sent by post_qcm_connexion
    accepted,    \* history: last verification data returned by the provider
    sent2,       \* history: payload of the second login
    reply,       \* history: the provider's reply to the last Transport call
    file0,       \* history: qcm.json as it was when the call started
    unit,        \* the last call of a function taken alone: operation, inputs, outcome
    conc,        \* the locals of the handshakes that run side by side on qcm.json
    checked      \* what check_ecoledirecte_session gave its caller

vars == << data, pc, login, file, qcm_json, try_login, qcm, question, cn, cv,
           result, session, err, events, step, nLogin, nFetch, nPost,
           fileReads, fileWrites, firstLogin, posted, accepted, sent2, reply,
           file0, unit, conc, checked >>

(***************************************************************************)
(* Bounds and program constants                                            *)
(***************************************************************************)
\* history counters stop counting at MaxCount (the loop itself is unbounded)
MaxCount == 6

\* try_login = 5
TryLoginInit == 5

\* Python None as a token
None == "None"

Bump(n) == IF n < MaxCount THEN n + 1 ELSE n

(***************************************************************************)
(* base64 and utf-8                                                        *)
(***************************************************************************)
\* base64.b64encode on one group of 1..3 bytes
B64EncodeGroup(b) ==
    IF Len(b) = 1 THEN
        << b[1] \div 4, (b[1] % 4) * 16, 64, 64 >>
    ELSE IF Len(b) = 2 THEN
        << b[1] \div 4, (b[1] % 4) * 16 + (b[2] \div 16), (b[2] % 16) * 4, 64 >>
    ELSE
        << b[1] \div 4, (b[1] % 4) * 16 + (b[2] \div 16),
           (b[2] % 16) * 4 + (b[3] \div 64), b[3] % 64 >>

RECURSIVE B64Encode(_)
B64Encode(b) ==
    IF Len(b) = 0 THEN << >>
    ELSE IF Len(b) <= 3 THEN B64EncodeGroup(b)
    ELSE B64EncodeGroup(SubSeq(b, 1, 3)) \o B64Encode(SubSeq(b, 4, Len(b)))

\* one group of 4 sextets back to 1..3 bytes
B64DecodeGroup(s) ==
    IF s[3] = 64 THEN
        << s[1] * 4 + (s[2] \div 16) >>
    ELSE IF s[4] = 64 THEN
        << s[1] * 4 + (s[2] \div 16), (s[2] % 16) * 16 + (s[3] \div 4) >>
    ELSE
        << s[1] * 4 + (s[2] \div 16), (s[2] % 16) * 16 + (s[3] \div 4),
           (s[3] % 4) * 64 + s[4] >>

RECURSIVE B64DecodeBytes(_)
B64DecodeBytes(s) ==
    IF Len(s) = 0 THEN << >>
    ELSE B64DecodeGroup(SubSeq(s, 1, 4)) \o B64DecodeBytes(SubSeq(s, 5, Len(s)))

\* base64.b64decode: binascii.Error ("Incorrect padding") unless the
\* sextets come in groups of four
B64Decode(s) ==
    IF Len(s) % 4 # 0
    THEN [ok |-> FALSE, exc |-> "binascii.Error", bytes |-> << >>]
    ELSE [ok |-> TRUE, exc |-> "none", bytes |-> B64DecodeBytes(s)]

\* bytes.decode("utf-8"), on ASCII bytes and on bytes that start no
\* valid sequence (multi-byte sequences are outside the input sets)
Utf8Decode(b) ==
    IF \A i \in 1..Len(b) : b[i] < 128
    THEN [ok |-> TRUE, exc |-> "none", text |-> b]
    ELSE [ok |-> FALSE, exc |-> "UnicodeDecodeError", text |-> << >>]

\* bytes(text, "utf-8") on ASCII text
Utf8Encode(t) == t

\* base64.b64decode(x).decode("utf-8")
DecodeText(s) ==
    IF ~B64Decode(s).ok
    THEN [ok |-> FALSE, exc |-> B64Decode(s).exc, text |-> << >>]
    ELSE Utf8Decode(B64Decode(s).bytes)

\* base64.b64encode(bytes(text, "utf-8")).decode("ascii")
EncodeText(t) == B64Encode(Utf8Encode(t))

(***************************************************************************)
(* Python values: a dict is a record or a function, `k in d` is            *)
(* k \in DOMAIN d, None is NoneDict where a dict is expected.              *)
(***************************************************************************)
NoneDict == [None |-> TRUE]
EmptyDict == [k \in {} |-> 0]

HasKey(d, k) == k \in DOMAIN d

\* `not v` for v a dict or None
Falsy(v) == v = NoneDict \/ DOMAIN v = {}

(***************************************************************************)
(* Transport                                                               *)
(***************************************************************************)
Raise(kind) == [exc |-> kind, value |-> NoneDict]
Return(v) == [exc |-> "none", value |-> v]

\* mutant: code 250 is an error whatever the token
GetResponseStrict(token, resp) ==
    IF ~resp.json THEN Raise("RequestError")
    ELSE IF ~HasKey(resp.body, "code") THEN Raise("RequestError")
    ELSE IF resp.body.code # 200 THEN
        IF HasKey(resp.body, "message") THEN Raise("RequestError")
        ELSE Raise("KeyError")
    ELSE Return(resp.body)

\* get_response(token, url, payload) on the provider's reply `resp`:
\* resp.json says whether response.json() parses, resp.body is the parsed body
GetResponse(token, resp) ==
    IF ~resp.json THEN Raise("RequestError")
    ELSE IF ~HasKey(resp.body, "code") THEN Raise("RequestError")
    ELSE IF resp.body.code = 250 /\ token = None THEN Return(resp.body)
    ELSE IF resp.body.code # 200 THEN
        IF HasKey(resp.body, "message") THEN Raise("RequestError")
        ELSE Raise("KeyError")
    ELSE Return(resp.body)

\* get_qcm_connexion(token)
GetQcmConnexion(token, resp) ==
    LET json_resp == GetResponse(token, resp) IN
    IF json_resp.exc # "none" THEN json_resp
    ELSE IF HasKey(json_resp.value, "data") THEN Return(json_resp.value.data)
    ELSE Return(NoneDict)

\* post_qcm_connexion(token, proposition)
PostQcmConnexion(token, proposition, resp) ==
    LET json_resp == GetResponse(token, resp) IN
    IF json_resp.exc # "none" THEN json_resp
    ELSE IF HasKey(json_resp.value, "data") THEN Return(json_resp.value.data)
    ELSE Return(NoneDict)

\* the payload of the second login: credentials, isRelogin false and the
\* "fa" pair (urllib.parse.quote leaves the user names and
\* passwords of Credentials as they are: unreserved characters only)
\* mutant: cn and cv change places
LoginPayloadFaSwapped(d, c, v) ==
    [identifiant |-> d.username, motdepasse |-> d.password, isRelogin |-> FALSE,
     fa |-> << [cn |-> v, cv |-> c] >>]

LoginPayloadFa(d, c, v) ==
    [identifiant |-> d.username, motdepasse |-> d.password, isRelogin |-> FALSE,
     fa |-> << [cn |-> c, cv |-> v] >>]

(***************************************************************************)
(* Inputs: credentials, initial cache files, provider replies              *)
(***************************************************************************)
Credentials == { [username |-> "alice", password |-> "pw"],
                 [username |-> "bob", password |-> "pw"] }

Q1 == << 81 >>
Q2 == << 81, 50 >>
A1 == << 52, 50 >>
A2 == << 55 >>
\* two sextets: not a multiple of four
BadB64 == << 20, 17 >>

EncQuestions == { EncodeText(Q1), EncodeText(Q2), BadB64 }
PropLists == { << EncodeText(A1) >>, << EncodeText(A1), EncodeText(A2) >>,
               << BadB64 >> }

Tokens == { "tokA", "tokB" }
Accounts == [accounts |-> << [id |-> 1, identifiant |-> "ident"] >>]

NotJson == [json |-> FALSE]
Json(b) == [json |-> TRUE, body |-> b]

LoginReplies ==
    { NotJson, Json([message |-> "m"]),
      Json([code |-> 505, message |-> "m"]), Json([code |-> 505]),
      Json([code |-> 250]), Json([code |-> 200, data |-> Accounts]) }
    \cup { Json([code |-> 200, token |-> t, data |-> Accounts]) : t \in Tokens }
    \cup { Json([code |-> 200, token |-> t]) : t \in Tokens }
    \cup { Json([code |-> 250, token |-> t, message |-> "m"]) : t \in Tokens }
    \cup { Json([code |-> 250, token |-> t, data |-> Accounts]) : t \in Tokens }

FetchReplies ==
    { NotJson, Json([code |-> 520, message |-> "m"]),
      Json([code |-> 250, message |-> "m"]), Json([code |-> 200]),
      Json([code |-> 200, data |-> [propositions |-> << EncodeText(A1) >>]]),
      Json([code |-> 200, data |-> [question |-> EncodeText(Q2)]]) }
    \cup { Json([code |-> 200, data |-> [question |-> q, propositions |-> p]]) :
             q \in EncQuestions, p \in PropLists }

PostReplies ==
    { NotJson, Json([code |-> 520, message |-> "m"]), Json([code |-> 200]),
      Json([code |-> 200, data |-> EmptyDict]),
      Json([code |-> 200, data |-> [cn |-> "cnA"]]) }
    \cup { Json([code |-> 200, data |-> [cn |-> c, cv |-> "cvA"]]) :
             c \in { "cnA", "cnB" } }

\* qcm.json: missing, not JSON, the JSON value null, or a JSON object
NoMap == [k \in {} |-> << >>]
FileDict(m) == [kind |-> "dict", map |-> m]
InitialFiles ==
    { [kind |-> "absent", map |-> NoMap], [kind |-> "invalid", map |-> NoMap],
      [kind |-> "null", map |-> NoMap],
      FileDict(NoMap),
      FileDict(Q1 :> << A1 >>),
      FileDict(Q1 :> << A1, A2 >>),
      FileDict(Q1 :> << >>),
      FileDict((Q1 :> << A2 >>) @@ (Q2 :> << A1, A2 >>)) }

Unbound == "unbound"

\* check_ecoledirecte_session has not returned yet
Pending == [exc |-> "pending"]

\* no function has been called yet
UnitIdle == [op |-> "idle"]

\* the handshakes (one per account) that share qcm.json, and the locals of
\* one of them once its first login has returned code 250
Handshakes == { "h1", "h2" }
HandshakeStart ==
    [pc |-> "load_cache", qcm_json |-> [kind |-> Unbound, map |-> NoMap],
     try_login |-> -1, qcm |-> NoneDict, question |-> << >>,
     loaded |-> [kind |-> Unbound, map |-> NoMap], recorded |-> {}]

Init ==
    /\ data \in Credentials
    /\ file \in InitialFiles
    /\ pc = "first_login"
    /\ login = NoneDict
    /\ qcm_json = [kind |-> Unbound, map |-> NoMap]
    /\ try_login = -1
    /\ qcm = NoneDict
    /\ question = << >>
    /\ cn = Unbound
    /\ cv = Unbound
    /\ result = "running"
    /\ session = NoneDict
    /\ err = "none"
    /\ events = << >>
    /\ step = "call"
    /\ nLogin = 0
    /\ nFetch = 0
    /\ nPost = 0
    /\ fileReads = 0
    /\ fileWrites = 0
    /\ firstLogin = NoneDict
    /\ posted = NoneDict
    /\ accepted = NoneDict
    /\ sent2 = NoneDict
    /\ reply = NotJson
    /\ file0 = file
    /\ unit = UnitIdle
    /\ conc = [h \in Handshakes |-> HandshakeStart]
    /\ checked = Pending

(***************************************************************************)
(* get_ecoledirecte_session                                                *)
(***************************************************************************)
\* mutant: the catch-all lets the cache file's errors out as well
HandlerCacheFatal(kind) ==
    IF kind \in { "QCMError", "FileNotFoundError", "JSONDecodeError" }
    THEN kind ELSE "None"

\* mutant: the catch-all swallows QCMError too
HandlerSwallowsAll(kind) == "None"

\* the except clauses: QCMError is raised again, anything else gives None
Handler(kind) == IF kind = "QCMError" THEN "QCMError" ELSE "None"

\* an exception of `kind` leaves the try block
Fails(kind) ==
    /\ pc' = "done"
    /\ result' = Handler(kind)
    /\ err' = kind

\* mutant: one iteration too many
LoopCondOffByOne(t) == t >= 0

\* while try_login > 0
LoopCond(t) == t > 0

\* mutant: an entry without candidates counts as absent
InCacheNonEmpty(c, q) ==
    c.kind # "null" /\ q \in DOMAIN c.map /\ Len(c.map[q]) > 0

\* qcm_json is not None and question in qcm_json
InCache(c, q) == c.kind # "null" /\ q \in DOMAIN c.map

\* mutant: two candidates still count as an answer
AmbiguousMoreThanTwo(c, q) == Len(c.map[q]) > 2

\* len(qcm_json[question]) > 1
Ambiguous(c, q) == Len(c.map[q]) > 1

\* mutant: the new entry is not kept in memory
StoreNothing(m, q, rep) == m

\* mutant: the new entry replaces the cache instead of joining it
StoreAlone(m, q, rep) == [k \in {q} |-> rep]

\* mutant: only the first proposition is kept
StoreFirstOnly(m, q, rep) ==
    [k \in DOMAIN m \cup {q} |-> IF k = q THEN SubSeq(rep, 1, 1) ELSE m[k]]

\* qcm_json[question] = rep
Store(m, q, rep) ==
    [k \in DOMAIN m \cup {q} |-> IF k = q THEN rep ELSE m[k]]

\* the payload of post_qcm_connexion
PostPayload(proposition) == [choix |-> proposition]

\* the event fired for a new question
EventData(d, q) ==
    [device_id |-> "ED - " \o d.username, type |-> "new_qcm", question |-> q]

\* EDSession(data), as far as the token and the first account's identifiers
\* go; login["data"]["accounts"][0]["identifiant"] is read first, for the log
EDSession(body) ==
    IF ~HasKey(body, "data") THEN Raise("KeyError")
    ELSE IF ~HasKey(body.data, "accounts") THEN Raise("KeyError")
    ELSE IF Len(body.data.accounts) = 0 THEN Raise("IndexError")
    ELSE IF ~HasKey(body, "token") THEN Raise("KeyError")
    ELSE Return([token |-> body.token,
                 id |-> body.data.accounts[1].id,
                 identifiant |-> body.data.accounts[1].identifiant])

\* mutant: code 200 is sent through the challenge as well
AfterFirstLoginChallenge(body) ==
    IF body.code \in { 200, 250 } THEN "load_cache" ELSE "build"

\* where the first login leads: the challenge on code 250, else the session
AfterFirstLogin(body) == IF body.code = 250 THEN "load_cache" ELSE "build"

\* login = get_response(None, .../login.awp, payload); if login["code"] == 250
FirstLogin ==
    /\ pc = "first_login"
    /\ \E resp \in LoginReplies :
         LET r == GetResponse(None, resp) IN
         /\ nLogin' = Bump(nLogin)
         /\ reply' = resp
         /\ step' = "first_login"
         /\ IF r.exc # "none"
            THEN Fails(r.exc) /\ UNCHANGED << login, firstLogin >>
            ELSE /\ login' = r.value
                 /\ firstLogin' = r.value
                 /\ pc' = AfterFirstLogin(r.value)
                 /\ UNCHANGED << result, err >>
    /\ UNCHANGED << data, file, qcm_json, try_login, qcm, question, cn, cv,
                    session, events, nFetch, nPost, fileReads, fileWrites,
                    posted, accepted, sent2, file0, unit, conc, checked >>

\* with open(qcm.json) as f: qcm_json = json.load(f); try_login = 5
LoadCache ==
    /\ pc = "load_cache"
    /\ fileReads' = fileReads + 1
    /\ step' = "read"
    /\ IF file.kind = "absent"
       THEN Fails("FileNotFoundError") /\ UNCHANGED << qcm_json, try_login >>
       ELSE IF file.kind = "invalid"
       THEN Fails("JSONDecodeError") /\ UNCHANGED << qcm_json, try_login >>
       ELSE /\ qcm_json' = file
            /\ try_login' = TryLoginInit
            /\ pc' = "loop"
            /\ UNCHANGED << result, err >>
    /\ UNCHANGED << data, login, file, qcm, question, cn, cv, session, events,
                    nLogin, nFetch, nPost, fileWrites, firstLogin, posted,
                    accepted, sent2, reply, file0, unit, conc, checked >>

\* qcm = get_qcm_connexion(login["token"]); question = b64decode(qcm["question"])
FetchQcm ==
    /\ pc = "loop"
    /\ LoopCond(try_login)
    /\ IF ~HasKey(login, "token")
       THEN /\ Fails("KeyError")
            /\ step' = "token"
            /\ UNCHANGED << nFetch, qcm, question, reply >>
       ELSE \E resp \in FetchReplies :
              LET r == GetQcmConnexion(login.token, resp) IN
              /\ nFetch' = Bump(nFetch)
              /\ reply' = resp
              /\ step' = "fetch"
              /\ IF r.exc # "none"
                 THEN Fails(r.exc) /\ UNCHANGED << qcm, question >>
                 ELSE IF r.value = NoneDict
                 THEN Fails("TypeError") /\ qcm' = r.value /\ UNCHANGED question
                 ELSE IF ~HasKey(r.value, "question")
                 THEN Fails("KeyError") /\ qcm' = r.value /\ UNCHANGED question
                 ELSE IF ~DecodeText(r.value.question).ok
                 THEN /\ Fails(DecodeText(r.value.question).exc)
                      /\ qcm' = r.value
                      /\ UNCHANGED question
                 ELSE /\ qcm' = r.value
                      /\ question' = DecodeText(r.value.question).text
                      /\ pc' = "branch"
                      /\ UNCHANGED << result, err >>
    /\ UNCHANGED << data, login, file, qcm_json, try_login, cn, cv, session,
                    events, nLogin, nPost, fileReads, fileWrites, firstLogin,
                    posted, accepted, sent2, file0, unit, conc, checked >>

\* if len(qcm_json[question]) > 1: try_login -= 1; continue
SkipAmbiguous ==
    /\ pc = "branch"
    /\ InCache(qcm_json, question)
    /\ Ambiguous(qcm_json, question)
    /\ try_login' = try_login - 1
    /\ pc' = "loop"
    /\ step' = "skip"
    /\ UNCHANGED << data, login, file, qcm_json, qcm, question, cn, cv, result,
                    session, err, events, nLogin, nFetch, nPost, fileReads,
                    fileWrites, firstLogin, posted, accepted, sent2, reply,
                    file0, unit, conc, checked >>

\* what follows a rejected answer: `continue`, try_login as it is
AfterRejected(t) == t

\* mutant: the cached answer is sent as it is, not base64-encoded
ReponsePlain(c, q) == Utf8Encode(c.map[q][1])

\* reponse = base64.b64encode(bytes(qcm_json[question][0], "utf-8"))
Reponse(c, q) == EncodeText(c.map[q][1])

\* cn_et_cv = post_qcm_connexion(login["token"], reponse), and what follows
SubmitCached ==
    /\ pc = "branch"
    /\ InCache(qcm_json, question)
    /\ ~Ambiguous(qcm_json, question)
    /\ IF Len(qcm_json.map[question]) = 0
       THEN /\ Fails("IndexError")
            /\ step' = "index"
            /\ UNCHANGED << nPost, posted, accepted, cn, cv, try_login, reply >>
       ELSE LET reponse == Reponse(qcm_json, question) IN
            \E resp \in PostReplies :
              LET r == PostQcmConnexion(login.token, reponse, resp) IN
              /\ nPost' = Bump(nPost)
              /\ reply' = resp
              /\ posted' = [token |-> login.token, payload |-> PostPayload(reponse)]
              /\ step' = "post"
              /\ IF r.exc # "none"
                 THEN Fails(r.exc) /\ UNCHANGED << accepted, cn, cv, try_login >>
                 ELSE IF Falsy(r.value)
                 THEN /\ pc' = "loop"
                      /\ try_login' = AfterRejected(try_login)
                      /\ UNCHANGED << result, err, accepted, cn, cv >>
                 ELSE IF ~HasKey(r.value, "cn")
                 THEN Fails("KeyError") /\ UNCHANGED << accepted, cn, cv, try_login >>
                 ELSE IF ~HasKey(r.value, "cv")
                 THEN /\ Fails("KeyError")
                      /\ cn' = r.value.cn
                      /\ UNCHANGED << accepted, cv, try_login >>
                 ELSE /\ cn' = r.value.cn
                      /\ cv' = r.value.cv
                      /\ accepted' = r.value
                      /\ pc' = "break"
                      /\ UNCHANGED << result, err, try_login >>
    /\ UNCHANGED << data, login, file, qcm_json, qcm, question, session, events,
                    nLogin, nFetch, fileReads, fileWrites, firstLogin, sent2,
                    file0, unit, conc, checked >>

\* rep = [b64decode(p) for p in qcm["propositions"]]
DecodeAll(props) == [i \in 1..Len(props) |-> DecodeText(props[i]).text]

\* else: qcm_json[question] = rep; json.dump(qcm_json, f); hass.bus.fire(...);
\* try_login -= 1
RecordNew ==
    /\ pc = "branch"
    /\ ~InCache(qcm_json, question)
    /\ IF ~HasKey(qcm, "propositions")
       THEN /\ Fails("KeyError")
            /\ step' = "propositions"
            /\ UNCHANGED << qcm_json, file, fileWrites, events, try_login >>
       ELSE IF \E i \in 1..Len(qcm.propositions) : ~DecodeText(qcm.propositions[i]).ok
       THEN /\ LET bad == { i \in 1..Len(qcm.propositions) :
                              ~DecodeText(qcm.propositions[i]).ok }
                     first == CHOOSE i \in bad : \A j \in bad : i <= j
                 IN Fails(DecodeText(qcm.propositions[first]).exc)
            /\ step' = "propositions"
            /\ UNCHANGED << qcm_json, file, fileWrites, events, try_login >>
       ELSE IF qcm_json.kind = "null"
       THEN /\ Fails("TypeError")
            /\ step' = "store"
            /\ UNCHANGED << qcm_json, file, fileWrites, events, try_login >>
       ELSE LET new == FileDict(Store(qcm_json.map, question,
                                      DecodeAll(qcm.propositions))) IN
            /\ qcm_json' = new
            /\ fileWrites' = fileWrites + 1
            /\ \/ /\ file' = new
                  /\ events' = Append(events, EventData(data, question))
                  /\ try_login' = try_login - 1
                  /\ pc' = "loop"
                  /\ step' = "record"
                  /\ UNCHANGED << result, err >>
               \/ /\ file' \in { file, [kind |-> "invalid", map |-> NoMap] }
                  /\ Fails("OSError")
                  /\ step' = "write"
                  /\ UNCHANGED << events, try_login >>
    /\ UNCHANGED << data, login, qcm, question, cn, cv, session, nLogin, nFetch,
                    nPost, fileReads, firstLogin, posted, accepted, sent2,
                    reply, file0, unit, conc, checked >>

\* if try_login == 0: raise QCMError(...)
Exhausted(t) == t = 0

\* the loop is left, by its condition or by break
AfterLoop ==
    /\ \/ pc = "loop" /\ ~LoopCond(try_login)
       \/ pc = "break"
    /\ step' = "exit"
    /\ IF Exhausted(try_login)
       THEN Fails("QCMError")
       ELSE IF cn = Unbound \/ cv = Unbound
       THEN Fails("UnboundLocalError")
       ELSE pc' = "second_login" /\ UNCHANGED << result, err >>
    /\ UNCHANGED << data, login, file, qcm_json, try_login, qcm, question, cn,
                    cv, session, events, nLogin, nFetch, nPost, fileReads,
                    fileWrites, firstLogin, posted, accepted, sent2, reply,
                    file0, unit, conc, checked >>

\* login = get_response(None, .../login.awp, payload with "fa")
SecondLogin ==
    /\ pc = "second_login"
    /\ \E resp \in LoginReplies :
         LET r == GetResponse(None, resp) IN
         /\ nLogin' = Bump(nLogin)
         /\ sent2' = LoginPayloadFa(data, cn, cv)
         /\ reply' = resp
         /\ step' = "second_login"
         /\ IF r.exc # "none"
            THEN Fails(r.exc) /\ UNCHANGED login
            ELSE /\ login' = r.value
                 /\ pc' = "build"
                 /\ UNCHANGED << result, err >>
    /\ UNCHANGED << data, file, qcm_json, try_login, qcm, question, cn, cv,
                    session, events, nFetch, nPost, fileReads, fileWrites,
                    firstLogin, posted, accepted, file0, unit, conc, checked >>

\* return EDSession(login)
BuildSession ==
    /\ pc = "build"
    /\ step' = "build"
    /\ IF EDSession(login).exc # "none"
       THEN Fails(EDSession(login).exc) /\ UNCHANGED session
       ELSE /\ session' = EDSession(login).value
            /\ result' = "Session"
            /\ pc' = "done"
            /\ UNCHANGED err
    /\ UNCHANGED << data, login, file, qcm_json, try_login, qcm, question, cn,
                    cv, events, nLogin, nFetch, nPost, fileReads, fileWrites,
                    firstLogin, posted, accepted, sent2, reply, file0, unit, conc, checked >>

\* mutant: an exhausted challenge budget counts as bad credentials
CheckEcoledirecteSessionStrict(outcome) ==
    IF outcome = "QCMError" THEN Return(FALSE)
    ELSE IF outcome \in { "Session", "None" } THEN Return(outcome # "None")
    ELSE Raise(outcome)

\* check_ecoledirecte_session on the outcome of get_ecoledirecte_session:
\* except QCMError: return True; return session is not None; any other
\* exception would go on to the caller
CheckEcoledirecteSession(outcome) ==
    IF outcome = "QCMError" THEN Return(TRUE)
    ELSE IF outcome \in { "Session", "None" } THEN Return(outcome # "None")
    ELSE Raise(outcome)

\* check_ecoledirecte_session, once its call of get_ecoledirecte_session is over
CheckReturns ==
    /\ pc = "done"
    /\ checked = Pending
    /\ checked' = CheckEcoledirecteSession(result)
    /\ step' = "check"
    /\ UNCHANGED << data, pc, login, file, qcm_json, try_login, qcm, question,
                    cn, cv, result, session, err, events, nLogin, nFetch,
                    nPost, fileReads, fileWrites, firstLogin, posted, accepted,
                    sent2, reply, file0, unit, conc >>

Next ==
    \/ FirstLogin
    \/ LoadCache
    \/ FetchQcm
    \/ SkipAmbiguous
    \/ SubmitCached
    \/ RecordNew
    \/ AfterLoop
    \/ SecondLogin
    \/ BuildSession

Spec == Init /\ [][Next]_vars

\* the interpreter runs the call on: each statement that can run does run
FairSpec == Spec /\ WF_vars(Next)

\* the handshake called through check_ecoledirecte_session
CheckNext ==
    \/ Next
    \/ CheckReturns

CheckSpec == Init /\ [][CheckNext]_vars

(***************************************************************************)
(* Functions taken alone: the transport, the data-fetch operations and     *)
(* get_fullname_lower, each applied to inputs drawn from a set             *)
(***************************************************************************)
UnitTokens == { None } \cup Tokens

TransportReplies ==
    { NotJson, Json([message |-> "m"]),
      Json([code |-> 200]), Json([code |-> 200, message |-> "m"]),
      Json([code |-> 200, token |-> "tokA", data |-> [matieres |-> "list"]]),
      Json([code |-> 200, data |-> EmptyDict]),
      Json([code |-> 250]), Json([code |-> 250, message |-> "m"]),
      Json([code |-> 250, token |-> "tokA", data |-> [totp |-> "no"]]),
      Json([code |-> 520, message |-> "m"]), Json([code |-> 520]),
      Json([code |-> 520, data |-> [matieres |-> "list"]]) }

\* get_response called alone
CallGetResponse ==
    /\ unit = UnitIdle
    /\ \E token \in UnitTokens, resp \in TransportReplies :
         unit' = [op |-> "get_response", token |-> token, resp |-> resp,
                  out |-> GetResponse(token, resp)]
    /\ UNCHANGED << data, pc, login, file, qcm_json, try_login, qcm, question,
                    cn, cv, result, session, err, events, step, nLogin, nFetch,
                    nPost, fileReads, fileWrites, firstLogin, posted, accepted,
                    sent2, reply, file0, conc, checked >>

\* one request: the token of the X-Token header, the path and the form body
Request(token, url, payload) == [token |-> token, url |-> url, payload |-> payload]

\* mutant: json_resp["data"] without the test
FetchOutcomeUnguarded(request, json_resp) ==
    IF json_resp.exc # "none"
    THEN [requests |-> << request >>, exc |-> json_resp.exc, value |-> NoneDict]
    ELSE IF HasKey(json_resp.value, "data")
    THEN [requests |-> << request >>, exc |-> "none", value |-> json_resp.value.data]
    ELSE [requests |-> << request >>, exc |-> "KeyError", value |-> NoneDict]

\* a data-fetch operation after its one get_response: the exception goes on
\* to the caller, else json_resp["data"], else None
FetchOutcome(request, json_resp) ==
    IF json_resp.exc # "none"
    THEN [requests |-> << request >>, exc |-> json_resp.exc, value |-> NoneDict]
    ELSE IF HasKey(json_resp.value, "data")
    THEN [requests |-> << request >>, exc |-> "none", value |-> json_resp.value.data]
    ELSE [requests |-> << request >>, exc |-> "none", value |-> NoneDict]

\* get_homeworks_by_date(token, eleve, date)
GetHomeworksByDate(token, eleve, date, resp) ==
    FetchOutcome(Request(token, << "Eleves", eleve.eleve_id, "cahierdetexte", date >>,
                         "data={}"),
                 GetResponse(token, resp))

\* get_homeworks(token, eleve)
GetHomeworks(token, eleve, resp) ==
    FetchOutcome(Request(token, << "Eleves", eleve.eleve_id, "cahierdetexte" >>,
                         "data={}"),
                 GetResponse(token, resp))

\* get_grades(token, eleve, annee_scolaire)
GetGrades(token, eleve, annee_scolaire, resp) ==
    FetchOutcome(Request(token, << "eleves", eleve.eleve_id, "notes" >>,
                         [anneeScolaire |-> annee_scolaire]),
                 GetResponse(token, resp))

\* get_lessons(token, eleve, date_debut, date_fin)
GetLessons(token, eleve, date_debut, date_fin, resp) ==
    FetchOutcome(Request(token, << "E", eleve.eleve_id, "emploidutemps" >>,
                         [dateDebut |-> date_debut, dateFin |-> date_fin,
                          avecTrous |-> FALSE]),
                 GetResponse(token, resp))

Eleves == { [eleve_id |-> 7], [eleve_id |-> 8] }
Dates == { "2024-09-02", "2024-09-03" }

\* the four data-fetch operations called alone
CallFetch ==
    /\ unit = UnitIdle
    /\ \E token \in UnitTokens, eleve \in Eleves, d \in Dates,
          resp \in TransportReplies :
         \/ unit' = [op |-> "get_homeworks_by_date", token |-> token,
                     eleve |-> eleve, resp |-> resp,
                     out |-> GetHomeworksByDate(token, eleve, d, resp)]
         \/ unit' = [op |-> "get_homeworks", token |-> token,
                     eleve |-> eleve, resp |-> resp,
                     out |-> GetHomeworks(token, eleve, resp)]
         \/ unit' = [op |-> "get_grades", token |-> token,
                     eleve |-> eleve, resp |-> resp,
                     out |-> GetGrades(token, eleve, "A001", resp)]
         \/ unit' = [op |-> "get_lessons", token |-> token,
                     eleve |-> eleve, resp |-> resp,
                     out |-> GetLessons(token, eleve, d, d, resp)]
    /\ UNCHANGED << data, pc, login, file, qcm_json, try_login, qcm, question,
                    cn, cv, result, session, err, events, step, nLogin, nFetch,
                    nPost, fileReads, fileWrites, firstLogin, posted, accepted,
                    sent2, reply, file0, conc, checked >>

\* str.lower() on one character, for the code points of Names: A-Z, U+00C9
\* (to U+00E9), U+0130 (to i and U+0307), U+212A KELVIN SIGN (to k); the
\* others are their own lower case
LowerChar(c) ==
    IF c >= 65 /\ c <= 90 THEN << c + 32 >>
    ELSE IF c = 201 THEN << 233 >>
    ELSE IF c = 304 THEN << 105, 775 >>
    ELSE IF c = 8490 THEN << 107 >>
    ELSE << c >>

RECURSIVE Lower(_)
Lower(t) ==
    IF Len(t) = 0 THEN << >> ELSE LowerChar(Head(t)) \o Lower(Tail(t))

\* [A-Za-z]
AsciiLetter(c) == (c >= 65 /\ c <= 90) \/ (c >= 97 /\ c <= 122)

\* re.sub("[^A-Za-z]", "_", t)
SubNonLetters(t) == [i \in 1..Len(t) |-> IF AsciiLetter(t[i]) THEN t[i] ELSE 95]

\* mutant: the names are not lower-cased
GetFullnameLowerAsIs(first, last) ==
    SubNonLetters(first) \o << 95 >> \o SubNonLetters(last)

\* EDEleve.get_fullname_lower
GetFullnameLower(first, last) ==
    SubNonLetters(Lower(first)) \o << 95 >> \o SubNonLetters(Lower(last))

\* "Jean-Paul", "O'Brien", "Zo" + U+00C9, U+0130 + "l", U+212A + "im", "a b", ""
JeanPaul == << 74, 101, 97, 110, 45, 80, 97, 117, 108 >>
OBrien == << 79, 39, 66, 114, 105, 101, 110 >>
Names == { JeanPaul, OBrien, << 90, 111, 201 >>, << 304, 108 >>,
           << 8490, 105, 109 >>, << 97, 32, 98 >>, << >> }

\* get_fullname_lower called alone
CallGetFullnameLower ==
    /\ unit = UnitIdle
    /\ \E first \in Names, last \in Names :
         unit' = [op |-> "get_fullname_lower", first |-> first, last |-> last,
                  out |-> GetFullnameLower(first, last)]
    /\ UNCHANGED << data, pc, login, file, qcm_json, try_login, qcm, question,
                    cn, cv, result, session, err, events, step, nLogin, nFetch,
                    nPost, fileReads, fileWrites, firstLogin, posted, accepted,
                    sent2, reply, file0, conc, checked >>

(***************************************************************************)
(* Domain mapper: EDEleve, EDHomework, EDGrade, EDLesson                   *)
(***************************************************************************)
\* Python False (JSON values are kept as strings)
PyFalse == "False"

\* if key in data: self.<attr> = data[key]  else: self.<other> = default
Attr(d, key, attr, other, default) ==
    IF HasKey(d, key) THEN attr :> d[key] ELSE other :> default

\* EDHomework.__init__
EDHomework(d, pour_le) ==
    Return(
        Attr(d, "matiere", "matiere", "matiere", "")
        @@ Attr(d, "codeMatiere", "code_matiere", "code_matiere", "")
        @@ Attr(d, "aFaire", "a_faire", "a_faire", "")
        @@ Attr(d, "idDevoir", "id_devoir", "id_devoir", "")
        @@ Attr(d, "documentsAFaire", "documents_a_faire", "documents_a_faire", "")
        @@ Attr(d, "donneLe", "donne_le", "donne_le", "")
        @@ "pour_le" :> pour_le
        @@ Attr(d, "effectue", "effectue", "effectue", "")
        @@ Attr(d, "interrogation", "interrogation", "interrogation", "")
        @@ Attr(d, "rendreEnLigne", "rendre_en_ligne", "rendre_en_ligne", "")
        @@ Attr(d, "nbJourMaxRenduDevoir", "nb_jour_max_rendu_devoir", "nb_jour_max_rendu_devoir", "")
        @@ Attr(d, "contenu", "contenu", "contenu", ""))

\* EDGrade.__init__
EDGrade(d) ==
    Return(
        Attr(d, "id", "id", "id", "")
        @@ Attr(d, "devoir", "devoir", "devoir", "")
        @@ Attr(d, "codePeriode", "code_periode", "code_periode", "")
        @@ Attr(d, "codeMatiere", "code_matiere", "code_matiere", "")
        @@ Attr(d, "libelleMatiere", "libelle_matiere", "libelle_matiere", "")
        @@ Attr(d, "codeSousMatiere", "code_sous_matiere", "code_sous_matiere", "")
        @@ Attr(d, "typeDevoir", "type_devoir", "type_devoir", "")
        @@ Attr(d, "enLettre", "en_lettre", "en_lettre", "")
        @@ Attr(d, "commentaire", "commentaire", "commentaire", "")
        @@ Attr(d, "uncSujet", "unc_sujet", "unc_sujet", "")
        @@ Attr(d, "uncCorrige", "unc_corrige", "unc_corrige", "")
        @@ Attr(d, "coef", "coef", "coef", "")
        @@ Attr(d, "noteSur", "note_sur", "note_sur", "")
        @@ Attr(d, "valeur", "valeur", "valeur", "")
        @@ Attr(d, "nonSignificatif", "non_significatif", "non_significatif", "")
        @@ Attr(d, "date", "date", "date", "")
        @@ Attr(d, "dateSaisie", "date_saisie", "date_saisie", "")
        @@ Attr(d, "valeurisee", "valeurisee", "valeurisee", "")
        @@ Attr(d, "moyenneClasse", "moyenne_classe", "moyenne_classe", "")
        @@ Attr(d, "minClasse", "min_classe", "min_classe", "")
        @@ Attr(d, "maxClasse", "max_classe", "max_classe", "")
        @@ Attr(d, "elementsProgramme", "elements_programme", "elements_programme", ""))

\* EDLesson.__init__
EDLesson(d) ==
    Return(
        Attr(d, "id", "id", "id", "")
        @@ Attr(d, "text", "text", "text", "")
        @@ Attr(d, "matiere", "matiere", "matiere", "")
        @@ Attr(d, "codeMatiere", "codeMatiere", "codeMatiere", "")
        @@ Attr(d, "typeCours", "typeCours", "typeCours", "")
        @@ Attr(d, "start_date", "start_date", "start_date", "")
        @@ Attr(d, "end_date", "end_date", "tend_date", "")
        @@ Attr(d, "color", "color", "color", "")
        @@ Attr(d, "dispensable", "dispensable", "dispensable", PyFalse)
        @@ Attr(d, "dispense", "dispense", "dispense", "")
        @@ Attr(d, "prof", "prof", "prof", "")
        @@ Attr(d, "salle", "salle", "salle", "")
        @@ Attr(d, "classe", "classe", "classe", "")
        @@ Attr(d, "classeId", "classeId", "classeId", "")
        @@ Attr(d, "classeCode", "classeCode", "classeCode", "")
        @@ Attr(d, "groupe", "groupe", "groupe", "")
        @@ Attr(d, "groupeCode", "groupeCode", "groupeCode", "")
        @@ Attr(d, "groupeId", "groupeId", "groupeId", "")
        @@ Attr(d, "icone", "icone", "icone", "")
        @@ Attr(d, "isFlexible", "isFlexible", "isFlexible", PyFalse)
        @@ Attr(d, "isModifie", "isModifie", "isModifie", PyFalse)
        @@ Attr(d, "contenuDeSeance", "contenuDeSeance", "contenuDeSeance", PyFalse)
        @@ Attr(d, "devoirAFaire", "devoirAFaire", "devoirAFaire", PyFalse)
        @@ Attr(d, "isAnnule", "isAnnule", "isAnnule", PyFalse))

\* [module["code"] for module in data["modules"] if module["enable"]]
RECURSIVE EnabledCodes(_)
EnabledCodes(modules) ==
    IF Len(modules) = 0 THEN << >>
    ELSE IF Head(modules).enable
         THEN << Head(modules).code >> \o EnabledCodes(Tail(modules))
         ELSE EnabledCodes(Tail(modules))

\* EDEleve.__init__ with data: a student linked to a family account
EDEleve(d, establishment) ==
    IF HasKey(d, "classe") /\ ~HasKey(d.classe, "id") THEN Raise("KeyError")
    ELSE IF HasKey(d, "classe") /\ ~HasKey(d.classe, "libelle") THEN Raise("KeyError")
    ELSE IF ~HasKey(d, "id") THEN Raise("KeyError")
    ELSE IF ~HasKey(d, "nom") THEN Raise("KeyError")
    ELSE IF ~HasKey(d, "prenom") THEN Raise("KeyError")
    ELSE IF ~HasKey(d, "modules") THEN Raise("KeyError")
    ELSE Return(
        (IF HasKey(d, "classe")
         THEN [classe_id |-> d.classe.id, classe_name |-> d.classe.libelle]
         ELSE EmptyDict)
        @@ [eleve_id |-> d.id, eleve_lastname |-> d.nom,
            eleve_firstname |-> d.prenom, establishment |-> establishment,
            modules |-> EnabledCodes(d.modules)])

\* the keys the provider documents for each record
EDHomeworkKeys ==
    { "matiere", "codeMatiere", "aFaire", "idDevoir", "documentsAFaire",
      "donneLe", "effectue", "interrogation", "rendreEnLigne",
      "nbJourMaxRenduDevoir", "contenu" }

EDGradeKeys ==
    { "id", "devoir", "codePeriode", "codeMatiere", "libelleMatiere",
      "codeSousMatiere", "typeDevoir", "enLettre", "commentaire", "uncSujet",
      "uncCorrige", "coef", "noteSur", "valeur", "nonSignificatif", "date",
      "dateSaisie", "valeurisee", "moyenneClasse", "minClasse", "maxClasse",
      "elementsProgramme" }

EDLessonKeys ==
    { "id", "text", "matiere", "codeMatiere", "typeCours", "start_date",
      "end_date", "color", "dispensable", "dispense", "prof", "salle",
      "classe", "classeId", "classeCode", "groupe", "groupeCode", "groupeId",
      "icone", "isFlexible", "isModifie", "contenuDeSeance", "devoirAFaire",
      "isAnnule" }

\* JSON objects: the empty one, one with every key, some with a few keys
JsonObjects(keys) ==
    { EmptyDict, [k \in keys |-> "v"] }
    \cup { [k \in { a, b } |-> "w"] : a \in keys, b \in { "id", "end_date", "matiere" } }

EleveObjects ==
    { EmptyDict,
      [id |-> "7", nom |-> "Martin", prenom |-> "Lea",
       modules |-> << [code |-> "NOTES", enable |-> TRUE],
                      [code |-> "VIE", enable |-> FALSE] >>],
      [id |-> "7", nom |-> "Martin", prenom |-> "Lea", modules |-> << >>,
       classe |-> [id |-> "12", libelle |-> "6A"]],
      [id |-> "7", nom |-> "Martin", prenom |-> "Lea", modules |-> << >>,
       classe |-> EmptyDict],
      [nom |-> "Martin", prenom |-> "Lea", modules |-> << >>] }

\* the four constructors called alone
CallMapper ==
    /\ unit = UnitIdle
    /\ \/ \E d \in JsonObjects(EDHomeworkKeys), pour_le \in Dates :
            unit' = [op |-> "EDHomework", data |-> d, pour_le |-> pour_le,
                     out |-> EDHomework(d, pour_le)]
       \/ \E d \in JsonObjects(EDGradeKeys) :
            unit' = [op |-> "EDGrade", data |-> d, out |-> EDGrade(d)]
       \/ \E d \in JsonObjects(EDLessonKeys) :
            unit' = [op |-> "EDLesson", data |-> d, out |-> EDLesson(d)]
       \/ \E d \in EleveObjects :
            unit' = [op |-> "EDEleve", data |-> d, out |-> EDEleve(d, "College")]
    /\ UNCHANGED << data, pc, login, file, qcm_json, try_login, qcm, question,
                    cn, cv, result, session, err, events, step, nLogin, nFetch,
                    nPost, fileReads, fileWrites, firstLogin, posted, accepted,
                    sent2, reply, file0, conc, checked >>

UnitNext ==
    \/ CallGetResponse
    \/ CallFetch
    \/ CallMapper
    \/ CallGetFullnameLower

UnitSpec == Init /\ [][UnitNext]_vars

(***************************************************************************)
(* Two handshakes side by side on the one qcm.json: lines 434-487 of each, *)
(* after a first login that returned code 250.                             *)
(***************************************************************************)
\* everything but the file and the handshakes' locals
ConcRest ==
    UNCHANGED << data, pc, login, qcm_json, try_login, qcm, question, cn, cv,
                 result, session, err, events, step, nLogin, nFetch, nPost,
                 fileReads, fileWrites, firstLogin, posted, accepted, sent2,
                 reply, file0, unit, checked >>

\* an exception leaves the try block of handshake h, or its loop is over
ConcEnds(h) == conc' = [conc EXCEPT ![h].pc = "done"]

\* open(qcm.json, "w") leaves an empty file until something is written
Truncated == [kind |-> "empty", map |-> NoMap]

\* mutant: the dump keeps the entries found on disk
DumpedMerged(own, onDisk) ==
    IF onDisk.kind = "dict"
    THEN { FileDict([k \in DOMAIN onDisk.map \cup DOMAIN own.map |->
                       IF k \in DOMAIN own.map THEN own.map[k] ELSE onDisk.map[k]]) }
    ELSE { own }

\* json.dump(qcm_json, f) from offset 0 of the file opened at line 477: the
\* whole in-memory copy; over what another writer has put there since, the
\* bytes of the two may be left mixed
Dumped(own, onDisk) ==
    IF onDisk = Truncated THEN { own }
    ELSE { own, [kind |-> "invalid", map |-> NoMap] }

\* what the provider answers to the fetch of a challenge, here: nothing
\* usable, or one of two questions with one proposition
ConcFetchReplies ==
    { NotJson }
    \cup { Json([code |-> 200,
                 data |-> [question |-> EncodeText(q),
                           propositions |-> << EncodeText(A1) >>]]) :
             q \in { Q1, Q2 } }

\* with open(qcm.json) as f: qcm_json = json.load(f); try_login = 5
ConcLoadCache(h) ==
    /\ conc[h].pc = "load_cache"
    /\ IF file.kind \in { "absent", "invalid", "empty" }
       THEN ConcEnds(h)
       ELSE conc' = [conc EXCEPT ![h].qcm_json = file, ![h].loaded = file,
                                 ![h].try_login = TryLoginInit, ![h].pc = "loop"]
    /\ UNCHANGED file
    /\ ConcRest

\* qcm = get_qcm_connexion(login["token"]); question = b64decode(qcm["question"])
ConcFetchQcm(h) ==
    /\ conc[h].pc = "loop"
    /\ LoopCond(conc[h].try_login)
    /\ \E resp \in ConcFetchReplies :
         LET r == GetQcmConnexion("tokA", resp) IN
         IF \/ r.exc # "none"
            \/ r.value = NoneDict
            \/ ~HasKey(r.value, "question")
            \/ ~DecodeText(r.value.question).ok
         THEN ConcEnds(h)
         ELSE conc' = [conc EXCEPT ![h].qcm = r.value,
                                   ![h].question = DecodeText(r.value.question).text,
                                   ![h].pc = "branch"]
    /\ UNCHANGED file
    /\ ConcRest

\* if len(qcm_json[question]) > 1: try_login -= 1; continue
ConcSkipAmbiguous(h) ==
    /\ conc[h].pc = "branch"
    /\ InCache(conc[h].qcm_json, conc[h].question)
    /\ Ambiguous(conc[h].qcm_json, conc[h].question)
    /\ conc' = [conc EXCEPT ![h].try_login = @ - 1, ![h].pc = "loop"]
    /\ UNCHANGED file
    /\ ConcRest

\* the single candidate is submitted: accepted (break), rejected (continue)
\* or an exception
ConcSubmitCached(h) ==
    /\ conc[h].pc = "branch"
    /\ InCache(conc[h].qcm_json, conc[h].question)
    /\ ~Ambiguous(conc[h].qcm_json, conc[h].question)
    /\ IF Len(conc[h].qcm_json.map[conc[h].question]) = 0
       THEN ConcEnds(h)
       ELSE \E resp \in PostReplies :
              LET r == PostQcmConnexion("tokA",
                           Reponse(conc[h].qcm_json, conc[h].question), resp) IN
              IF r.exc = "none" /\ Falsy(r.value)
              THEN conc' = [conc EXCEPT ![h].try_login = AfterRejected(@),
                                        ![h].pc = "loop"]
              ELSE ConcEnds(h)
    /\ UNCHANGED file
    /\ ConcRest

\* else: rep = [...]; qcm_json[question] = rep; open(qcm.json, "w")
ConcRecordNew(h) ==
    /\ conc[h].pc = "branch"
    /\ ~InCache(conc[h].qcm_json, conc[h].question)
    /\ IF \/ ~HasKey(conc[h].qcm, "propositions")
          \/ \E i \in 1..Len(conc[h].qcm.propositions) :
                ~DecodeText(conc[h].qcm.propositions[i]).ok
          \/ conc[h].qcm_json.kind = "null"
       THEN ConcEnds(h) /\ UNCHANGED file
       ELSE /\ conc' = [conc EXCEPT
                          ![h].qcm_json = FileDict(Store(@.map, conc[h].question,
                                              DecodeAll(conc[h].qcm.propositions))),
                          ![h].recorded = @ \cup { conc[h].question },
                          ![h].pc = "dump"]
            /\ file' = Truncated
    /\ ConcRest

\* json.dump(qcm_json, f); the file is closed; hass.bus.fire(...); try_login -= 1
ConcDump(h) ==
    /\ conc[h].pc = "dump"
    /\ file' \in Dumped(conc[h].qcm_json, file)
    /\ conc' = [conc EXCEPT ![h].try_login = @ - 1, ![h].pc = "loop"]
    /\ ConcRest

\* while try_login > 0 is false
ConcAfterLoop(h) ==
    /\ conc[h].pc = "loop"
    /\ ~LoopCond(conc[h].try_login)
    /\ ConcEnds(h)
    /\ UNCHANGED file
    /\ ConcRest

ConcNext ==
    \E h \in Handshakes :
       \/ ConcLoadCache(h)
       \/ ConcFetchQcm(h)
       \/ ConcSkipAmbiguous(h)
       \/ ConcSubmitCached(h)
       \/ ConcRecordNew(h)
       \/ ConcDump(h)
       \/ ConcAfterLoop(h)

ConcSpec == Init /\ [][ConcNext]_vars

(***************************************************************************)
(* Properties                                                              *)
(***************************************************************************)
Done == pc = "done"

\* C1: once the first login returned code 250, get_qcm_connexion is called at
\* most 5 times in one handshake, whatever the provider replies and whatever
\* the cache holds.
C1_FetchAtMostFive == nFetch <= TryLoginInit

\* C2: every handshake eventually reaches a terminal state (a session, no
\* session, or QCMError), every Transport call returning.
C2_Terminates == <>Done

\* C3: once 5 retries are consumed (try_login = 0) the only step left is the
\* one that raises QCMError: no challenge fetch, answer submission or login
\* follows, and QCMError is raised in no other situation.
C3_ExhaustedFailsWithoutCall ==
    /\ [](try_login = 0 /\ ~Done => pc = "loop")
    /\ [](result = "QCMError" => try_login = 0 /\ accepted = NoneDict)
    /\ [][try_login = 0 =>
            /\ step' = "exit"
            /\ Done' /\ result' = "QCMError"
            /\ << nLogin', nFetch', nPost', reply', posted', sent2' >>
                 = << nLogin, nFetch, nPost, reply, posted, sent2 >>]_vars

C3_Witness ==
    /\ Done /\ result = "QCMError" /\ try_login = 0
    /\ nFetch = TryLoginInit /\ step = "exit"

CacheErrors == { "FileNotFoundError", "JSONDecodeError" }

C5_OnlyQcmErrorEscapes ==
    /\ Done => result \in { "Session", "None", "QCMError" }
    /\ ~Done => result = "running" /\ err = "none"
    /\ result = "QCMError" <=> err = "QCMError"
    /\ result = "None" <=> err \notin { "none", "QCMError" }
    /\ result = "Session" => err = "none" /\ Done

C5_Witness ==
    /\ Done /\ result = "None" /\ err = "RequestError"
    /\ step = "second_login" /\ accepted # NoneDict

\* the reply carries verification data: code 200 and a data object with cn, cv
VerificationData(r) ==
    /\ r.json
    /\ HasKey(r.body, "code") /\ r.body.code = 200
    /\ HasKey(r.body, "data")
    /\ HasKey(r.body.data, "cn") /\ HasKey(r.body.data, "cv")

\* C6: an iteration that completes on a question absent from the cache leaves
\* the cache, in memory and on disk, mapping the decoded question to all the
\* decoded propositions in order, fires exactly one new_qcm event with device
\* id "ED - " + username and the decoded question, takes one retry and submits
\* no answer.
C6_NewQuestionRecorded ==
    [][(pc = "branch" /\ question \notin DOMAIN qcm_json.map /\ pc' = "loop") =>
         /\ step' = "record"
         /\ EncodeText(question) = qcm.question
         /\ DOMAIN qcm_json'.map = DOMAIN qcm_json.map \cup { question }
         /\ \A k \in DOMAIN qcm_json.map : qcm_json'.map[k] = qcm_json.map[k]
         /\ Len(qcm_json'.map[question]) = Len(qcm.propositions)
         /\ \A i \in 1..Len(qcm.propositions) :
              EncodeText(qcm_json'.map[question][i]) = qcm.propositions[i]
         /\ file' = qcm_json' /\ file'.kind = "dict"
         /\ events' = Append(events, [device_id |-> "ED - " \o data.username,
                                      type |-> "new_qcm",
                                      question |-> question])
         /\ (data.username = "alice" =>
               events'[Len(events')].device_id = "ED - alice")
         /\ try_login' = try_login - 1
         /\ << posted', nPost', reply' >> = << posted, nPost, reply >>]_vars

C6_Witness ==
    /\ step = "record" /\ question = Q1 /\ try_login = TryLoginInit - 1
    /\ file0 = FileDict(NoMap)
    /\ file = FileDict(Q1 :> << A1, A2 >>) /\ qcm_json = file
    /\ events = << [device_id |-> "ED - alice", type |-> "new_qcm",
                    question |-> Q1] >>
    /\ posted = NoneDict

\* C7: a question cached with exactly one candidate has that candidate
\* submitted, base64-encoded, with the token of the first login ("42" goes out
\* as "NDI="); when the provider returns verification data the loop is left at
\* once with that (cn, cv), no retry consumed, and no challenge fetch or
\* submission follows.
C7_SingleCandidateSubmitted ==
    /\ [][(pc = "branch" /\ InCache(qcm_json, question)
             /\ Len(qcm_json.map[question]) = 1) =>
            /\ step' = "post"
            /\ posted'.token = firstLogin.token
            /\ DecodeText(posted'.payload.choix) =
                 [ok |-> TRUE, exc |-> "none", text |-> qcm_json.map[question][1]]
            /\ (qcm_json.map[question] = << A1 >> =>
                  posted'.payload = [choix |-> << 13, 3, 8, 64 >>])
            /\ (VerificationData(reply') =>
                  /\ pc' = "break"
                  /\ cn' = reply'.body.data.cn /\ cv' = reply'.body.data.cv
                  /\ accepted' = reply'.body.data
                  /\ try_login' = try_login)]_vars
    /\ [][accepted # NoneDict =>
            /\ step' \notin { "fetch", "post", "record", "skip" }
            /\ << cn', cv', try_login', accepted' >> = << cn, cv, try_login, accepted >>]_vars
    /\ [][pc = "break" => step' = "exit" /\ pc' = "second_login"]_vars

C7_Witness ==
    /\ pc = "break" /\ step = "post" /\ try_login = TryLoginInit /\ nFetch = 1
    /\ file0 = FileDict(Q1 :> << A1 >>)
    /\ posted = [token |-> "tokA", payload |-> [choix |-> << 13, 3, 8, 64 >>]]
    /\ cn = "cnB" /\ cv = "cvA"

\* C8: a question cached with more than one candidate takes exactly one retry
\* and nothing is sent to the provider: the step after the fetch is the skip,
\* no answer is submitted and the cache is left alone.
C8_AmbiguousSkipped ==
    [][(pc = "branch" /\ InCache(qcm_json, question)
          /\ Len(qcm_json.map[question]) > 1) =>
         /\ step' = "skip"
         /\ pc' = "loop"
         /\ try_login' = try_login - 1
         /\ << posted', nPost', nFetch', nLogin', reply' >>
              = << posted, nPost, nFetch, nLogin, reply >>]_vars

C8_Witness ==
    /\ step = "skip" /\ pc = "loop" /\ try_login = TryLoginInit - 1
    /\ question = Q1 /\ qcm_json.map[Q1] = << A1, A2 >>
    /\ nFetch = 1 /\ nPost = 0

\* C9: the second login is sent only after an answer submission was accepted
\* in this handshake, at most once, with the credentials and exactly the
\* (cn, cv) of that acceptance; without a pair no second login is sent.
C9_SecondLoginCarriesPair ==
    /\ [](sent2 # NoneDict =>
            /\ accepted # NoneDict
            /\ sent2 = [identifiant |-> data.username,
                        motdepasse |-> data.password,
                        isRelogin |-> FALSE,
                        fa |-> << [cn |-> accepted.cn, cv |-> accepted.cv] >>])
    /\ [](nLogin <= 2)
    /\ [][step' = "second_login" => sent2 = NoneDict /\ accepted # NoneDict]_vars
    /\ [][accepted' # accepted =>
            /\ accepted = NoneDict /\ step' = "post"
            /\ VerificationData(reply') /\ accepted' = reply'.body.data]_vars

C9_Witness ==
    /\ step = "second_login" /\ nLogin = 2
    /\ accepted = [cn |-> "cnB", cv |-> "cvA"]
    /\ sent2.fa = << [cn |-> "cnB", cv |-> "cvA"] >>

\* the body has all that EDSession reads
WellFormed(body) ==
    /\ HasKey(body, "token") /\ HasKey(body, "data")
    /\ HasKey(body.data, "accounts") /\ Len(body.data.accounts) > 0

\* C10: when the first login returns code 200 there is one Transport call in
\* the whole handshake, qcm.json is neither read nor written, no event is
\* fired, and the session is built from that first body (None when the body
\* lacks what EDSession reads).
C10_DirectLogin ==
    (firstLogin # NoneDict /\ firstLogin.code = 200) =>
        /\ pc \in { "build", "done" }
        /\ login = firstLogin
        /\ nLogin = 1 /\ nFetch = 0 /\ nPost = 0
        /\ step \in { "first_login", "build" }
        /\ fileReads = 0 /\ fileWrites = 0 /\ file = file0
        /\ qcm_json.kind = Unbound
        /\ events = << >>
        /\ (Done => result \in { "Session", "None" })
        /\ (Done /\ WellFormed(firstLogin) => result = "Session")
        /\ (result = "Session" =>
              session = [token |-> firstLogin.token,
                         id |-> firstLogin.data.accounts[1].id,
                         identifiant |-> firstLogin.data.accounts[1].identifiant])

C10_Witness ==
    /\ Done /\ result = "Session" /\ firstLogin.code = 200 /\ nLogin = 1
    /\ session = [token |-> "tokB", id |-> 1, identifiant |-> "ident"]

\* C11: an iteration on a question already in the cache (skipped, answered
\* and accepted, answered and rejected) leaves the cache in memory and the
\* file as they are and fires no event; the write and the event happen only
\* for a question absent from the cache.
C11_KnownQuestionLeavesCache ==
    /\ [][(pc = "branch" /\ question \in DOMAIN qcm_json.map) =>
            /\ step' \in { "skip", "post", "index" }
            /\ << qcm_json', file', events', fileWrites' >>
                 = << qcm_json, file, events, fileWrites >>]_vars
    /\ [][(events' # events \/ file' # file \/ fileWrites' # fileWrites
             \/ (qcm_json' # qcm_json /\ pc # "load_cache")) =>
            /\ pc = "branch" /\ question \notin DOMAIN qcm_json.map
            /\ step' \in { "record", "write" }]_vars

C11_Witness ==
    /\ step = "post" /\ pc = "loop" /\ nPost = 1
    /\ question = Q1 /\ file0 = FileDict(Q1 :> << A1 >>)
    /\ qcm_json = file0 /\ file = file0
    /\ events = << >> /\ fileWrites = 0

\* C17: from the load on, no question leaves the cache and no candidate list
\* of a question already there changes; the cache changes only by gaining the
\* question just fetched, which was absent.
C17_CacheOnlyGrows ==
    /\ [](qcm_json.kind = "dict" =>
            \A k \in DOMAIN file0.map :
               k \in DOMAIN qcm_json.map /\ qcm_json.map[k] = file0.map[k])
    /\ [][qcm_json.kind = "dict" =>
            /\ qcm_json'.kind = "dict"
            /\ \A k \in DOMAIN qcm_json.map :
                 k \in DOMAIN qcm_json'.map /\ qcm_json'.map[k] = qcm_json.map[k]
            /\ (qcm_json' # qcm_json =>
                  /\ question \notin DOMAIN qcm_json.map
                  /\ DOMAIN qcm_json'.map = DOMAIN qcm_json.map \cup { question })]_vars

C17_Witness ==
    /\ Done /\ file0 = FileDict(Q1 :> << A1, A2 >>)
    /\ qcm_json = FileDict((Q1 :> << A1, A2 >>) @@ (Q2 :> << A1 >>))
    /\ file = qcm_json

\* C19: a session is returned only when the last login response carries code
\* 200; a second login answered with code 250 gives no session.
C19_SessionOnlyOnCode200 == result = "Session" => login.code = 200

\* C20: every answer submitted is the single candidate of an entry that was in
\* qcm.json when the handshake loaded it; an entry recorded during the
\* handshake is never submitted.
C20_OnlyLoadedAnswersSubmitted ==
    step = "post" =>
        /\ question \in DOMAIN file0.map
        /\ Len(file0.map[question]) = 1
        /\ posted.payload = [choix |-> EncodeText(file0.map[question][1])]

\* get_response lets the body through: code 200, or code 250 without a token
PassesThrough(token, resp) ==
    /\ resp.json
    /\ HasKey(resp.body, "code")
    /\ resp.body.code = 200 \/ (resp.body.code = 250 /\ token = None)

\* C13: every reply that is not let through (not JSON, no code field, a code
\* other than 200 that is not the 250-without-token case, with or without a
\* message field) makes get_response fail with RequestError and nothing else.
C13_FailuresAreRequestError ==
    (unit.op = "get_response" /\ ~PassesThrough(unit.token, unit.resp)) =>
        unit.out.exc = "RequestError"

\* C14: for code 200, and for code 250 when no token was supplied, get_response
\* returns the parsed body unchanged, with or without a message field.
C14_PassThrough ==
    (unit.op = "get_response" /\ PassesThrough(unit.token, unit.resp)) =>
        unit.out = [exc |-> "none", value |-> unit.resp.body]

C14_Witness ==
    /\ unit.op = "get_response" /\ unit.token = None
    /\ unit.resp = Json([code |-> 250])
    /\ unit.out.exc = "none" /\ unit.out.value = [code |-> 250]

FetchOps == { "get_homeworks_by_date", "get_homeworks", "get_grades", "get_lessons" }

\* C15: each data-fetch operation issues exactly one Transport call, with the
\* caller's token and the student's identifier in the path; on a successful
\* response it returns the data field when there is one and None, without
\* raising, when there is none.
C15_FetchOneCall ==
    unit.op \in FetchOps =>
        /\ Len(unit.out.requests) = 1
        /\ unit.out.requests[1].token = unit.token
        /\ unit.out.requests[1].url[2] = unit.eleve.eleve_id
        /\ (PassesThrough(unit.token, unit.resp) =>
              /\ unit.out.exc = "none"
              /\ unit.out.value = IF HasKey(unit.resp.body, "data")
                                  THEN unit.resp.body.data ELSE NoneDict)

C15_Witness ==
    /\ unit.op = "get_homeworks_by_date" /\ unit.token = "tokA"
    /\ unit.resp = Json([code |-> 200])
    /\ unit.out.exc = "none" /\ unit.out.value = NoneDict
    /\ Len(unit.out.requests) = 1

\* the fields of EDHomework: attribute, source key, default
EDHomeworkFields ==
    { << "matiere", "matiere", "" >>,
      << "code_matiere", "codeMatiere", "" >>, << "a_faire", "aFaire", "" >>,
      << "id_devoir", "idDevoir", "" >>,
      << "documents_a_faire", "documentsAFaire", "" >>,
      << "donne_le", "donneLe", "" >>, << "effectue", "effectue", "" >>,
      << "interrogation", "interrogation", "" >>,
      << "rendre_en_ligne", "rendreEnLigne", "" >>,
      << "nb_jour_max_rendu_devoir", "nbJourMaxRenduDevoir", "" >>,
      << "contenu", "contenu", "" >> }

\* the fields of EDGrade: attribute, source key, default
EDGradeFields ==
    { << "id", "id", "" >>, << "devoir", "devoir", "" >>,
      << "code_periode", "codePeriode", "" >>,
      << "code_matiere", "codeMatiere", "" >>,
      << "libelle_matiere", "libelleMatiere", "" >>,
      << "code_sous_matiere", "codeSousMatiere", "" >>,
      << "type_devoir", "typeDevoir", "" >>,
      << "en_lettre", "enLettre", "" >>,
      << "commentaire", "commentaire", "" >>,
      << "unc_sujet", "uncSujet", "" >>,
      << "unc_corrige", "uncCorrige", "" >>, << "coef", "coef", "" >>,
      << "note_sur", "noteSur", "" >>, << "valeur", "valeur", "" >>,
      << "non_significatif", "nonSignificatif", "" >>,
      << "date", "date", "" >>, << "date_saisie", "dateSaisie", "" >>,
      << "valeurisee", "valeurisee", "" >>,
      << "moyenne_classe", "moyenneClasse", "" >>,
      << "min_classe", "minClasse", "" >>,
      << "max_classe", "maxClasse", "" >>,
      << "elements_programme", "elementsProgramme", "" >> }

\* the fields of EDLesson: attribute, source key, default
EDLessonFields ==
    { << "id", "id", "" >>, << "text", "text", "" >>,
      << "matiere", "matiere", "" >>, << "codeMatiere", "codeMatiere", "" >>,
      << "typeCours", "typeCours", "" >>,
      << "start_date", "start_date", "" >>, << "end_date", "end_date", "" >>,
      << "color", "color", "" >>,
      << "dispensable", "dispensable", PyFalse >>,
      << "dispense", "dispense", "" >>, << "prof", "prof", "" >>,
      << "salle", "salle", "" >>, << "classe", "classe", "" >>,
      << "classeId", "classeId", "" >>, << "classeCode", "classeCode", "" >>,
      << "groupe", "groupe", "" >>, << "groupeCode", "groupeCode", "" >>,
      << "groupeId", "groupeId", "" >>, << "icone", "icone", "" >>,
      << "isFlexible", "isFlexible", PyFalse >>,
      << "isModifie", "isModifie", PyFalse >>,
      << "contenuDeSeance", "contenuDeSeance", PyFalse >>,
      << "devoirAFaire", "devoirAFaire", PyFalse >>,
      << "isAnnule", "isAnnule", PyFalse >> }

\* every field is there, with the value of its key or its default
FieldsMapped(fields, d, obj) ==
    \A t \in fields :
       /\ HasKey(obj, t[1])
       /\ obj[t[1]] = IF HasKey(d, t[2]) THEN d[t[2]] ELSE t[3]

EDEleveFields ==
    { "eleve_id", "eleve_lastname", "eleve_firstname", "classe_id", "classe_name",
      "modules", "establishment" }

\* C16: for every JSON object, the empty one included, the construction of a
\* Homework, a Grade, a Lesson or a linked Student does not fail and leaves
\* every declared field holding the value of its key or its default.
C16_MapperTotal ==
    /\ unit.op \in { "EDHomework", "EDGrade", "EDLesson", "EDEleve" } =>
         unit.out.exc = "none"
    /\ unit.op = "EDHomework" =>
         /\ FieldsMapped(EDHomeworkFields, unit.data, unit.out.value)
         /\ unit.out.value.pour_le = unit.pour_le
    /\ unit.op = "EDGrade" => FieldsMapped(EDGradeFields, unit.data, unit.out.value)
    /\ unit.op = "EDLesson" => FieldsMapped(EDLessonFields, unit.data, unit.out.value)
    /\ unit.op = "EDEleve" => EDEleveFields \subseteq DOMAIN unit.out.value

\* lower case for A-Z, the letter itself for a-z, an underscore otherwise
PerChar(t) ==
    [i \in 1..Len(t) |->
        IF t[i] >= 65 /\ t[i] <= 90 THEN t[i] + 32
        ELSE IF t[i] >= 97 /\ t[i] <= 122 THEN t[i]
        ELSE 95]

AllAscii(t) == \A i \in 1..Len(t) : t[i] < 128

\* jean_paul_o_brien
JeanPaulOBrien ==
    << 106, 101, 97, 110, 95, 112, 97, 117, 108, 95, 111, 95, 98, 114, 105, 101, 110 >>

\* C18 as stated: first and last name joined by an underscore, every ASCII
\* letter lower-cased, every other character replaced by exactly one underscore.
C18_FullnameLowerPerChar ==
    unit.op = "get_fullname_lower" =>
        unit.out = PerChar(unit.first) \o << 95 >> \o PerChar(unit.last)

\* C18 as amended: that holds for names made of ASCII characters; in general
\* the result has only a-z and underscores, is no shorter than the two names
\* and the underscore, and Jean-Paul O'Brien gives jean_paul_o_brien.
C18_FullnameLowerAscii ==
    unit.op = "get_fullname_lower" =>
        /\ (AllAscii(unit.first) /\ AllAscii(unit.last) =>
              unit.out = PerChar(unit.first) \o << 95 >> \o PerChar(unit.last))
        /\ \A i \in 1..Len(unit.out) :
              unit.out[i] = 95 \/ (unit.out[i] >= 97 /\ unit.out[i] <= 122)
        /\ Len(unit.out) >= Len(unit.first) + 1 + Len(unit.last)
        /\ (unit.first = JeanPaul /\ unit.last = OBrien =>
              unit.out = JeanPaulOBrien)

C18_Witness ==
    /\ unit.op = "get_fullname_lower"
    /\ unit.first = JeanPaul /\ unit.last = OBrien
    /\ unit.out = JeanPaulOBrien

\* the file holds a JSON object
Persisted == file.kind = "dict"

\* C12: of two handshakes on the same file, each loads the file once, at its
\* start, and each write puts the writer's own in-memory copy -- what it
\* loaded and what it recorded itself -- in the place of the whole file,
\* whatever the file held; so a question one handshake recorded can be
\* missing from the file once the other has written.
C12_WholeFileFromOwnCopy ==
    /\ \A h \in Handshakes :
          conc[h].pc \notin { "load_cache", "done" } =>
             /\ conc[h].qcm_json.kind = conc[h].loaded.kind
             /\ DOMAIN conc[h].qcm_json.map =
                   DOMAIN conc[h].loaded.map \cup conc[h].recorded
    /\ [][/\ \A h \in Handshakes :
                conc'[h].loaded # conc[h].loaded => conc[h].pc = "load_cache"
          /\ (file' # file /\ file'.kind = "dict") =>
                \E h \in Handshakes :
                   /\ conc[h].pc = "dump"
                   /\ file' = conc[h].qcm_json]_vars

C12_Witness ==
    /\ Persisted
    /\ conc["h1"].recorded = { Q1 } /\ conc["h1"].pc = "loop"
    /\ conc["h2"].recorded = { Q2 } /\ conc["h2"].pc = "loop"
    /\ conc["h1"].loaded = FileDict(NoMap) /\ conc["h2"].loaded = FileDict(NoMap)
    /\ file = conc["h2"].qcm_json
    /\ Q1 \notin DOMAIN file.map

\* C21: within one handshake the new_qcm events carry pairwise distinct
\* questions, none of them a key of the cache as it was loaded; when the same
\* unknown question comes back on a retry, only its first occurrence fired an
\* event and wrote the file (one write per event, and at most one more, the
\* write that failed).
C21_OneEventPerQuestion ==
    /\ \A i, j \in 1..Len(events) :
          events[i].question = events[j].question => i = j
    /\ \A i \in 1..Len(events) :
          /\ events[i].type = "new_qcm"
          /\ events[i].question \notin DOMAIN file0.map
    /\ fileWrites \in { Len(events), Len(events) + 1 }
    /\ fileWrites = Len(events) + 1 => (Done /\ err = "OSError")

C21_Witness ==
    /\ step = "skip" /\ pc = "loop"
    /\ file0 = FileDict(NoMap)
    /\ nFetch = 2 /\ question = Q1
    /\ Len(events) = 1 /\ events[1].question = Q1
    /\ fileWrites = 1
    /\ file = FileDict(Q1 :> << A1, A2 >>)

\* C22: check_ecoledirecte_session never raises; it returns True exactly when
\* the handshake gave a Session or ended with QCMError, and False exactly when
\* the handshake gave None -- so an exhausted retry budget reports the
\* credentials as valid.
C22_CheckReportsValid ==
    checked # Pending =>
        /\ checked.exc = "none"
        /\ checked.value \in BOOLEAN
        /\ checked.value <=> result \in { "Session", "QCMError" }
        /\ ~checked.value <=> result = "None"

C22_Witness ==
    /\ checked = Return(TRUE)
    /\ result = "QCMError" /\ err = "QCMError"
    /\ try_login = 0

====
